---- MODULE Spec2Model ----
(***************************************************************************)
(* Model of the meme-generation API route (src/unnamed/part_000): one      *)
(* handler per request, chaining catalog read, template selection, the     *)
(* chat-completion call, regex parsing of the reply, the imgflip render    *)
(* call and the Firestore count + write.                                   *)
(*                                                                         *)
(* Text is modelled as a sequence of tokens.  The words "Invitation" and   *)
(* "Caption" are single tokens (the patterns only ever test them whole);   *)
(* every other token is one character.  JavaScript's null and undefined    *)
(* are two sentinel sequences that no text can equal.                      *)
(***************************************************************************)
EXTENDS Integers, Sequences, FiniteSets, TLC

\* ------------------------------------------------------------ bounds
NumReqs == 2
MaxCatalog == 2
MaxLines == 3

Reqs == 1..NumReqs

\* ------------------------------------------------------------ JS values
Null == <<"#null">>
Undefined == <<"#undefined">>
Unset == <<"#unset">>
EmptyStr == <<>>

NL == "\n"
\* \s and \d of the regular expressions, over the model's alphabet
WS == {" ", NL}
Digits == {"1", "2"}

Min(S) == CHOOSE x \in S : \A y \in S : x <= y
Max(S) == CHOOSE x \in S : \A y \in S : x >= y

\* ------------------------------------------------------------ regex helpers
\* (.*) starting at position i: the last position before the next newline
LineEnd(msg, i) ==
  LET nls == {k \in i..Len(msg) : msg[k] = NL}
  IN  IF nls = {} THEN Len(msg) ELSE Min(nls) - 1

\* pat is a sequence of token classes; does it match msg at position i
MatchesAt(msg, i, pat) ==
  /\ i + Len(pat) - 1 <= Len(msg)
  /\ \A k \in 1..Len(pat) : msg[i + k - 1] \in pat[k]

MatchPositions(msg, pat, from) ==
  {i \in from..Len(msg) : MatchesAt(msg, i, pat)}

\* String.prototype.match without the g flag, pattern pat followed by (.*):
\* <<whole match, group 1>> of the leftmost match, or <<>> for null
Match(msg, pat) ==
  LET ps == MatchPositions(msg, pat, 1)
  IN  IF ps = {} THEN <<>>
      ELSE LET i == Min(ps)
               e == LineEnd(msg, i + Len(pat))
           IN  <<SubSeq(msg, i, e), SubSeq(msg, i + Len(pat), e)>>

\* String.prototype.match with the g flag: every whole match, left to right
RECURSIVE MatchAllFrom(_, _, _)
MatchAllFrom(msg, pat, from) ==
  LET ps == MatchPositions(msg, pat, from)
  IN  IF ps = {} THEN <<>>
      ELSE LET i == Min(ps)
               e == LineEnd(msg, i + Len(pat))
           IN  <<SubSeq(msg, i, e)>> \o MatchAllFrom(msg, pat, e + 1)

MatchAll(msg, pat) == MatchAllFrom(msg, pat, 1)

\* String.prototype.split(": ")
RECURSIVE SplitColonSpace(_)
SplitColonSpace(s) ==
  LET ps == {i \in 1..(Len(s) - 1) : s[i] = ":" /\ s[i + 1] = " "}
  IN  IF ps = {} THEN <<s>>
      ELSE LET i == Min(ps)
           IN  <<SubSeq(s, 1, i - 1)>> \o SplitColonSpace(SubSeq(s, i + 2, Len(s)))

\* arr[1] of a JavaScript array (the second element, or undefined)
Second(arr) == IF Len(arr) >= 2 THEN arr[2] ELSE Undefined

\* String.prototype.lastIndexOf(':') + 1 (0 when there is no colon)
LastColon(msg) ==
  LET ps == {i \in 1..Len(msg) : msg[i] = ":"}
  IN  IF ps = {} THEN 0 ELSE Max(ps)

\* ------------------------------------------------------------ the parser
CaptionBracket == <<{"Caption"}, {"["}, Digits, {"]"}, {":"}, WS>>
CaptionSpaced == <<{"Caption"}, WS, Digits, {":"}, WS>>
CaptionPlain == <<{"Caption"}, Digits, {":"}, WS>>

CaptionMatches(msg) ==
  IF Len(MatchAll(msg, CaptionBracket)) > 0 THEN MatchAll(msg, CaptionBracket)
  ELSE IF Len(MatchAll(msg, CaptionSpaced)) > 0 THEN MatchAll(msg, CaptionSpaced)
  ELSE MatchAll(msg, CaptionPlain)

ParseCaptions(msg) ==
  LET ms == CaptionMatches(msg)
  IN  [k \in 1..Len(ms) |-> [text |-> Second(SplitColonSpace(ms[k]))]]

InvitationWS == <<{"Invitation"}, {":"}, WS>>
InvitationNL == <<{"Invitation"}, {":"}, {NL}>>

InvitationMatch(msg) ==
  IF Len(Match(msg, InvitationWS)) > 0 THEN Match(msg, InvitationWS)
  ELSE Match(msg, InvitationNL)

ParseInvitation(msg) ==
  LET im == InvitationMatch(msg)
      whole == IF Len(im) > 0 /\ Len(im[1]) > 0 THEN im[1] ELSE <<":", " ">>
  IN  IF Len(im) = 0
        THEN SubSeq(msg, LastColon(msg) + 1, Len(msg))
        ELSE Second(SplitColonSpace(whole))

\* ------------------------------------------------------------ inputs
\* public/memes.json: up to MaxCatalog entries, each with a description that
\* is a string, null, or a key left out (undefined after JSON.parse)
DescribedText == <<"a">>
Descriptions == {DescribedText, Null, Undefined}

Catalogs ==
  UNION {{[i \in 1..n |-> [id |-> i, box_count |-> 2, description |-> ds[i]]] :
            ds \in [1..n -> Descriptions]} : n \in 0..MaxCatalog}

NoMeme == [id |-> 0, box_count |-> 0, description |-> Unset]

Methods == {"POST", "GET"}

\* replies of the chat-completion API the handler is run against
MsgValid ==
  <<"Caption", "[", "1", "]", ":", " ", "a", NL,
    "Caption", "[", "2", "]", ":", " ", "b", NL,
    "Invitation", ":", " ", "a", "b">>
MsgNoCaptions == <<"Invitation", ":", " ", "a">>
MsgNewlineInvitation ==
  <<"Caption", "[", "1", "]", ":", " ", "a", NL, "Invitation", ":", NL, "b">>
MsgEmptyInvitation ==
  <<"Caption", "1", ":", " ", "a", NL, "Invitation", ":", " ">>
MsgNoMarker == <<"Caption", " ", "1", ":", " ", "a", NL, "b", ":", "a">>

HandlerMessages ==
  {Null, Undefined, EmptyStr, MsgValid, MsgNoCaptions, MsgNewlineInvitation,
   MsgEmptyInvitation, MsgNoMarker}

\* replies the parser is run against: up to MaxLines lines joined by newlines
Lines ==
  {<<"Caption", "[", "1", "]", ":", " ", "a">>,
   <<"Caption", " ", "2", ":", " ", "b">>,
   <<"Invitation", ":", " ", "a">>,
   <<"Invitation", ":", " ", "a", ":", " ", "b">>,
   <<"Invitation", ":", " ">>,
   <<"Invitation", ":">>,
   <<"Invitation", ":", "b">>,
   <<"a", ":", "b">>,
   <<"b">>,
   <<>>}

RECURSIVE JoinLines(_)
JoinLines(ls) ==
  IF Len(ls) = 0 THEN <<>>
  ELSE IF Len(ls) = 1 THEN ls[1]
  ELSE ls[1] \o <<NL>> \o JoinLines(Tail(ls))

ParseMessages ==
  {JoinLines(ls) : ls \in UNION {[1..n -> Lines] : n \in 1..MaxLines}} \ {EmptyStr}

\* answers of the imgflip API: response.ok, and what response.json() finds
Url == <<"url">>
Responses ==
  {[ok |-> TRUE, body |-> "url"], [ok |-> TRUE, body |-> "nourl"],
   [ok |-> TRUE, body |-> "badjson"], [ok |-> FALSE, body |-> "nourl"]}
NoResponse == [ok |-> FALSE, body |-> "none"]

NoReply ==
  [status |-> 0, error |-> "", memeUrl |-> Undefined, captions |-> <<>>,
   invitation |-> Undefined]

\* ------------------------------------------------------------ state
VARIABLES
  memes,       \* the parsed catalog file
  store,       \* the "memes" collection, in commit order
  running,     \* the request inside the synchronous selection loop, or 0
  pc,          \* where each request's handler is suspended
  method,      \* req.method
  chosenMeme, message, captions, invitation, response,
  count,       \* memeSnapshot.data().count, -1 before it is read
  reply,       \* what res.status(..).json(..) sent
  calls        \* the external calls each request has issued

vars ==
  <<memes, store, running, pc, method, chosenMeme, message, captions,
    invitation, response, count, reply, calls>>

Init ==
  /\ memes \in Catalogs
  /\ store = <<>>
  /\ running = 0
  /\ pc = [r \in Reqs |-> "start"]
  /\ method = [r \in Reqs |-> "none"]
  /\ chosenMeme = [r \in Reqs |-> NoMeme]
  /\ message = [r \in Reqs |-> Unset]
  /\ captions = [r \in Reqs |-> <<>>]
  /\ invitation = [r \in Reqs |-> Unset]
  /\ response = [r \in Reqs |-> NoResponse]
  /\ count = [r \in Reqs |-> -1]
  /\ reply = [r \in Reqs |-> NoReply]
  /\ calls = [r \in Reqs |-> {}]

\* ------------------------------------------------------------ the handler
\* mutant: the method check left out
MethodAllowedNoCheck(m) == TRUE

MethodAllowed(m) == m = "POST"

\* mutant: the loop condition inverted (!== for ===)
RejectedInverted(meme) == meme.description # Null

Rejected(meme) == meme.description = Null

\* mutant: the empty string not tested
MessageMissingNoEmpty(m) == m = Null \/ m = Undefined

MessageMissing(m) == m = Null \/ m = Undefined \/ m = EmptyStr

\* mutant: response.ok not tested
RenderFailedIgnoresStatus(resp, inv, caps) ==
  \/ inv = Undefined
  \/ inv = Null
  \/ inv = EmptyStr
  \/ Len(caps) = 0

\* mutant: captions.length not tested
RenderFailedIgnoresCaptions(resp, inv, caps) ==
  \/ ~resp.ok
  \/ inv = Undefined
  \/ inv = Null
  \/ inv = EmptyStr

\* mutant: response.ok tested without its negation
RenderFailedOkInverted(resp, inv, caps) ==
  \/ resp.ok
  \/ inv = Undefined
  \/ inv = Null
  \/ inv = EmptyStr
  \/ Len(caps) = 0

RenderFailed(resp, inv, caps) ==
  \/ ~resp.ok
  \/ inv = Undefined
  \/ inv = Null
  \/ inv = EmptyStr
  \/ Len(caps) = 0

\* mutant: the index taken from the store at the time of the write
MemeDocIndexAtWrite(r) ==
  [owner |-> r, imgFlipMemeId |-> chosenMeme[r].id, captions |-> captions[r],
   invitation |-> invitation[r], random |-> Len(store)]

MemeDoc(r) ==
  [owner |-> r, imgFlipMemeId |-> chosenMeme[r].id, captions |-> captions[r],
   invitation |-> invitation[r], random |-> count[r]]

ErrorReply(code, text) == [NoReply EXCEPT !.status = code, !.error = text]

Respond(r, rep) ==
  /\ reply' = [reply EXCEPT ![r] = rep]
  /\ pc' = [pc EXCEPT ![r] = "done"]

Call(r, what) == calls' = [calls EXCEPT ![r] = @ \cup {what}]

Start(r, m, exists) ==
  /\ pc[r] = "start"
  /\ running = 0
  /\ method' = [method EXCEPT ![r] = m]
  /\ IF ~MethodAllowed(m)
       THEN /\ Respond(r, ErrorReply(405, "This type of request is not supported."))
            /\ UNCHANGED calls
       ELSE IF ~exists
         THEN /\ Respond(r, ErrorReply(500, "Unable to retrieve memes."))
              /\ UNCHANGED calls
         ELSE /\ Call(r, "catalog")
              /\ pc' = [pc EXCEPT ![r] = "reading"]
              /\ UNCHANGED reply
  /\ UNCHANGED <<memes, store, running, chosenMeme, message, captions,
                 invitation, response, count>>

\* the catalog read resolves; the handler enters the do-while loop.  Of an
\* empty catalog memes[NaN] is undefined, the loop ends at once and building
\* the prompt throws.
ReadCatalog(r) ==
  /\ pc[r] = "reading"
  /\ running = 0
  /\ IF Len(memes) = 0
       THEN /\ pc' = [pc EXCEPT ![r] = "threw"]
            /\ UNCHANGED running
       ELSE /\ pc' = [pc EXCEPT ![r] = "select"]
            /\ running' = r
  /\ UNCHANGED <<memes, store, method, chosenMeme, message, captions,
                 invitation, response, count, reply, calls>>

\* one iteration of the loop; it runs to its end before any other handler
Sample(r, i) ==
  /\ pc[r] = "select"
  /\ running = r
  /\ i \in 1..Len(memes)
  /\ chosenMeme' = [chosenMeme EXCEPT ![r] = memes[i]]
  /\ IF Rejected(memes[i])
       THEN UNCHANGED <<pc, running, calls>>
       ELSE /\ Call(r, "llm")
            /\ pc' = [pc EXCEPT ![r] = "llm"]
            /\ running' = 0
  /\ UNCHANGED <<memes, store, method, message, captions, invitation,
                 response, count, reply>>

\* the completion resolves with content m; parse it and post to imgflip
LlmReply(r, m) ==
  /\ pc[r] = "llm"
  /\ running = 0
  /\ message' = [message EXCEPT ![r] = m]
  /\ IF MessageMissing(m)
       THEN /\ Respond(r, ErrorReply(500, "Unable to contact ChatGPT's servers."))
            /\ UNCHANGED <<captions, invitation, calls>>
       ELSE /\ captions' = [captions EXCEPT ![r] = ParseCaptions(m)]
            /\ invitation' = [invitation EXCEPT ![r] = ParseInvitation(m)]
            /\ Call(r, "render")
            /\ pc' = [pc EXCEPT ![r] = "render"]
            /\ UNCHANGED reply
  /\ UNCHANGED <<memes, store, running, method, chosenMeme, response, count>>

RenderReply(r, resp) ==
  /\ pc[r] = "render"
  /\ running = 0
  /\ response' = [response EXCEPT ![r] = resp]
  /\ IF RenderFailed(resp, invitation[r], captions[r])
       THEN /\ Respond(r, ErrorReply(500, "Unable to generate meme."))
            /\ UNCHANGED calls
       ELSE /\ Call(r, "count")
            /\ pc' = [pc EXCEPT ![r] = "count"]
            /\ UNCHANGED reply
  /\ UNCHANGED <<memes, store, running, method, chosenMeme, message, captions,
                 invitation, count>>

CountReply(r) ==
  /\ pc[r] = "count"
  /\ running = 0
  /\ count' = [count EXCEPT ![r] = Len(store)]
  /\ Call(r, "write")
  /\ pc' = [pc EXCEPT ![r] = "write"]
  /\ UNCHANGED <<memes, store, running, method, chosenMeme, message, captions,
                 invitation, response, reply>>

WriteCommit(r) ==
  /\ pc[r] = "write"
  /\ running = 0
  /\ store' = Append(store, MemeDoc(r))
  /\ pc' = [pc EXCEPT ![r] = "json"]
  /\ UNCHANGED <<memes, running, method, chosenMeme, message, captions,
                 invitation, response, count, reply, calls>>

\* response.json() settles: a body that is no JSON rejects, a body without
\* data.url leaves memeUrl undefined
JsonReply(r) ==
  /\ pc[r] = "json"
  /\ running = 0
  /\ IF response[r].body = "badjson"
       THEN /\ pc' = [pc EXCEPT ![r] = "threw"]
            /\ UNCHANGED reply
       ELSE Respond(r, [status |-> 201, error |-> "",
                        memeUrl |-> IF response[r].body = "url" THEN Url ELSE Undefined,
                        captions |-> captions[r], invitation |-> invitation[r]])
  /\ UNCHANGED <<memes, store, running, method, chosenMeme, message, captions,
                 invitation, response, count, calls>>

\* an awaited external call rejects (file, network or store error): nothing
\* catches it, the handler ends without a response of its own
AwaitRejects(r) ==
  /\ pc[r] \in {"reading", "llm", "render", "count", "write"}
  /\ running = 0
  /\ pc' = [pc EXCEPT ![r] = "threw"]
  /\ UNCHANGED <<memes, store, running, method, chosenMeme, message, captions,
                 invitation, response, count, reply, calls>>

\* one step of the handler of request r
Handler(r) ==
  \/ \E m \in Methods, exists \in BOOLEAN : Start(r, m, exists)
  \/ ReadCatalog(r)
  \/ \E i \in 1..MaxCatalog : Sample(r, i)
  \/ \E m \in HandlerMessages : LlmReply(r, m)
  \/ \E resp \in Responses : RenderReply(r, resp)
  \/ CountReply(r)
  \/ WriteCommit(r)
  \/ JsonReply(r)
  \/ AwaitRejects(r)

\* every request in flight at once
Next == \E r \in Reqs : Handler(r)

Spec == Init /\ [][Next]_vars

\* every request in flight at once, each on the path on which every
\* collaborator answers well: the runs of Spec that end in 201
HandlerOk(r) ==
  \/ Start(r, "POST", TRUE)
  \/ ReadCatalog(r)
  \/ \E i \in 1..MaxCatalog : Sample(r, i)
  \/ LlmReply(r, MsgValid)
  \/ RenderReply(r, [ok |-> TRUE, body |-> "url"])
  \/ CountReply(r)
  \/ WriteCommit(r)
  \/ JsonReply(r)

NextRace == \E r \in Reqs : HandlerOk(r)

SpecRace == Init /\ [][NextRace]_vars

\* a single request, the others never arriving
NextOne == Handler(1)

SpecOne == Init /\ [][NextOne]_vars

\* the parser alone: request 1 waits for the completion, which may be any
\* of ParseMessages
InitParse ==
  /\ memes = <<[id |-> 1, box_count |-> 2, description |-> DescribedText]>>
  /\ store = <<>>
  /\ running = 0
  /\ pc = [r \in Reqs |-> IF r = 1 THEN "llm" ELSE "start"]
  /\ method = [r \in Reqs |-> IF r = 1 THEN "POST" ELSE "none"]
  /\ chosenMeme = [r \in Reqs |-> IF r = 1 THEN memes[1] ELSE NoMeme]
  /\ message = [r \in Reqs |-> Unset]
  /\ captions = [r \in Reqs |-> <<>>]
  /\ invitation = [r \in Reqs |-> Unset]
  /\ response = [r \in Reqs |-> NoResponse]
  /\ count = [r \in Reqs |-> -1]
  /\ reply = [r \in Reqs |-> NoReply]
  /\ calls = [r \in Reqs |-> IF r = 1 THEN {"catalog", "llm"} ELSE {}]

NextParse == \E m \in ParseMessages : LlmReply(1, m)

SpecParse == InitParse /\ [][NextParse]_vars

\* the loop is synchronous and Math.random() is uniform: no index is passed
\* over for ever while the loop runs
SpecOneFair == SpecOne /\ \A i \in 1..MaxCatalog : WF_vars(Sample(1, i))

SpecFair == Spec /\ \A r \in Reqs : \A i \in 1..MaxCatalog : WF_vars(Sample(r, i))

\* ------------------------------------------------------------ vocabulary
Terminal(r) == pc[r] \in {"done", "threw"}

DocsOf(r) == {k \in 1..Len(store) : store[k].owner = r}

Wrote(r) == DocsOf(r) # {}

Present(v) == v # Undefined /\ v # Null /\ v # EmptyStr /\ v # Unset

ValidParse(r) == Len(captions[r]) >= 1 /\ Present(invitation[r])

Described(meme) == meme.description # Null /\ meme.description # Undefined

HasDescribed == \E i \in 1..Len(memes) : Described(memes[i])

StoreCalls == {"count", "write"}

\* ------------------------------------------------------------ C1
\* C1: in every terminal state of a request, a record written by that request
\* is in the store if and only if the request was answered with 201.
C1_PersistedIffCreated ==
  \A r \in Reqs : Terminal(r) => (Wrote(r) <=> reply[r].status = 201)

\* ------------------------------------------------------------ C2
\* C2: a request whose model content is null, undefined or the empty string
\* is answered 500 with an error body, and issues no render call, no count
\* read and no document write.
C2_EmptyMessageFails ==
  \A r \in Reqs :
    (message[r] = Null \/ message[r] = Undefined \/ message[r] = EmptyStr) =>
      /\ pc[r] = "done"
      /\ reply[r].status = 500
      /\ reply[r].error # ""
      /\ calls[r] \cap ({"render"} \cup StoreCalls) = {}
      /\ ~Wrote(r)

C2_Witness ==
  \E r \in Reqs : message[r] = EmptyStr /\ pc[r] = "done" /\ "llm" \in calls[r]

\* ------------------------------------------------------------ C3
\* C3: a request whose render call came back non-2xx is answered 500 and
\* writes nothing to the store, whatever was parsed.
C3_RenderFailureFails ==
  \A r \in Reqs :
    (response[r] \in Responses /\ ~response[r].ok) =>
      /\ pc[r] = "done"
      /\ reply[r].status = 500
      /\ calls[r] \cap StoreCalls = {}
      /\ ~Wrote(r)

C3_Witness ==
  \E r \in Reqs :
    response[r] \in Responses /\ ~response[r].ok /\ ValidParse(r) /\ pc[r] = "done"

\* ------------------------------------------------------------ C4
\* C4 as stated: a render call implies that the parsed result of the request
\* had at least one caption and a non-empty invitation.
C4_NoRenderWhenInvalid ==
  \A r \in Reqs : "render" \in calls[r] => ValidParse(r)

\* C4 amended: the render call is issued before validation, but an invalid
\* parsed result is never accepted: once the render answer is in, the request
\* is answered 500, and no store call, no record and no 201 exists for it.
C4_InvalidNeverAccepted ==
  \A r \in Reqs :
    /\ (calls[r] \cap StoreCalls # {} \/ Wrote(r) \/ reply[r].status = 201)
         => ValidParse(r)
    /\ (response[r] \in Responses /\ ~ValidParse(r))
         => (pc[r] = "done" /\ reply[r].status = 500)

C4_Witness ==
  \E r \in Reqs :
    /\ "render" \in calls[r]
    /\ Len(captions[r]) = 0
    /\ response[r] \in Responses /\ response[r].ok
    /\ reply[r].status = 500

\* ------------------------------------------------------------ C5
\* C5: when the catalog holds at least one entry with a description, the
\* template handed to the caption generator has a description.
C5_SelectedHasDescription ==
  \A r \in Reqs : ("llm" \in calls[r] /\ HasDescribed) => Described(chosenMeme[r])

\* ------------------------------------------------------------ C6
SuccessInputs(r) ==
  /\ Present(message[r])
  /\ ValidParse(r)
  /\ response[r] = [ok |-> TRUE, body |-> "url"]

Created(r) ==
  /\ reply[r].status = 201
  /\ reply[r].memeUrl = Url
  /\ reply[r].captions = captions[r]
  /\ reply[r].invitation = invitation[r]
  /\ Cardinality(DocsOf(r)) = 1

C7_NonPostRejected ==
  \A r \in Reqs :
    (method[r] # "none" /\ method[r] # "POST") =>
      /\ pc[r] = "done"
      /\ reply[r].status = 405
      /\ calls[r] = {}
      /\ ~Wrote(r)

C7_Witness == \E r \in Reqs : method[r] = "GET" /\ pc[r] = "done"

\* ------------------------------------------------------------ C8
\* C8: the index a record carries is the count its request read earlier, not
\* the count at the time of the write; with two requests in flight both can
\* read the same count, and two records then carry the same index.
C8_IndexIsEarlierCount ==
  \A k \in 1..Len(store) :
    /\ store[k].random = count[store[k].owner]
    /\ store[k].random \in 0..(k - 1)

C8_Witness ==
  \E j, k \in 1..Len(store) :
    j # k /\ store[j].owner # store[k].owner /\ store[j].random = store[k].random

\* ------------------------------------------------------------ C9
\* C9: with a catalog that holds a described entry, a request inside the
\* selection loop eventually leaves it and issues the caption-generation call.
C9_LoopExits ==
  \A r \in Reqs : (pc[r] = "select" /\ HasDescribed) ~> ("llm" \in calls[r])

\* the loop has turned a sample down and a described entry is still to be drawn
C9_Witness ==
  \E r \in Reqs :
    HasDescribed /\ pc[r] = "select" /\ chosenMeme[r].description = Null

\* ------------------------------------------------------------ C10
\* the invitation the fallback chain of the claim names
SameLineForm(msg) ==
  {i \in 1..(Len(msg) - 2) :
     msg[i] = "Invitation" /\ msg[i + 1] = ":" /\ msg[i + 2] = " "}

NextLineForm(msg) ==
  {i \in 1..(Len(msg) - 2) :
     msg[i] = "Invitation" /\ msg[i + 1] = ":" /\ msg[i + 2] = NL}

RestOfLine(msg, i) ==
  LET stop == {k \in i..Len(msg) : msg[k] = NL}
  IN  SubSeq(msg, i, IF stop = {} THEN Len(msg) ELSE Min(stop) - 1)

AfterLastColon(msg) ==
  LET cs == {k \in 1..Len(msg) : msg[k] = ":"}
  IN  SubSeq(msg, (IF cs = {} THEN 0 ELSE Max(cs)) + 1, Len(msg))

ClaimedInvitation(msg) ==
  IF SameLineForm(msg) # {} THEN RestOfLine(msg, Min(SameLineForm(msg)) + 3)
  ELSE IF NextLineForm(msg) # {} THEN RestOfLine(msg, Min(NextLineForm(msg)) + 3)
  ELSE AfterLastColon(msg)

\* C10: the parsed invitation is the rest of the `Invitation: ` line; failing
\* that, the line after `Invitation:`; failing both, the text after the last
\* colon of the reply.
C10_InvitationFallbackChain ==
  \A r \in Reqs :
    Present(message[r]) => invitation[r] = ClaimedInvitation(message[r])

====
